---- MODULE Spec2Model ----
(***************************************************************************)
(* Verification model of the 3D character controller: the animation frame  *)
(* of main.js (animate), the physics glue of physics.js (updatePhysics,    *)
(* applyBuoyancy), the character controller of character.js                *)
(* (updateCharacter and its helpers), the input module of input.js and the *)
(* dynamic props of environment.js.                                        *)
(*                                                                         *)
(* Units.  Lengths are in centimetres, velocities in cm/s and impulses in  *)
(* kg*cm/s, so 2.0 (m) in the source is 200 here and 5.0 (m/s) is 500.     *)
(* Yaw is in milliradians.  A velocity or direction component is a pair    *)
(* <<a, b>> that stands for the exact number a + b*sqrt(2): the normalised *)
(* diagonal direction has the components +-sqrt(2)/2, which no integer     *)
(* scale represents.  Direction components are kept in halves (the pair    *)
(* <<2, 0>> is 1 and <<0, 1>> is sqrt(2)/2).                               *)
(*                                                                         *)
(* The rigid-body solver (world.step, castRay, applyImpulse, setLinvel) is *)
(* the Rapier library; it is modelled by its interface behaviour: a step   *)
(* moves every dynamic body to some position and velocity, an impulse      *)
(* changes the linear velocity at once by impulse / mass, and a ray cast   *)
(* with solid = true tests every collider of the world.                    *)
(***************************************************************************)
EXTENDS Integers, Sequences, FiniteSets, TLC

VARIABLES pc, inputState, frameInput, rigidBody, isGrounded, rotationY,
          direction, velocity, mesh, calls, buoyancyLog, initDone, meshYaw,
          cameraController, loading, sceneObjects, waterSim

vars == <<pc, inputState, frameInput, rigidBody, isGrounded, rotationY,
          direction, velocity, mesh, calls, buoyancyLog, initDone, meshYaw,
          cameraController, loading, sceneObjects, waterSim>>

(***************************************************************************)
(* Numbers and vectors                                                     *)
(***************************************************************************)
Vec(x, y, z) == [x |-> x, y |-> y, z |-> z]

\* the pair for the rational number a
Num(a) == <<a, 0>>

NumAdd(p, q) == <<p[1] + q[1], p[2] + q[2]>>

NumScale(k, p) == <<k * p[1], k * p[2]>>

\* integer division that truncates toward zero, as a scaled float division
DivTrunc(n, d) == IF n >= 0 THEN n \div d ELSE -((-n) \div d)

ZeroVelocity == Vec(Num(0), Num(0), Num(0))

Abs(n) == IF n < 0 THEN -n ELSE n

(***************************************************************************)
(* Program constants                                                       *)
(***************************************************************************)
CHARACTER_HEIGHT == 200

CHARACTER_RADIUS == 50

MOVE_SPEED == 500

JUMP_FORCE == 1000

GROUND_CHECK_DISTANCE == 10

WATER_LEVEL == 0

BUOYANCY_FORCE == 20

WATER_DRAG == 2

\* yaw change in milliradians per pixel of mouse movement:
\* ROTATION_SPEED * 0.01 = 0.1 * 0.01 rad
ROTATION_PER_PIXEL == 1

\* a quarter turn (pi/2) in milliradians; the yaw values of the model are
\* its multiples, where the rotation matrix of applyEuler is exact
QuarterTurn == 1571

\* mass of the character body in grams: Rapier's default density 1 times
\* the volume of capsule(half height 1.0, radius 0.5) = pi * (0.5 + 1/6)
CharacterMassMilli == 2094

\* the largest yaw, in quarter turns, the mouse is let to accumulate
MaxYawTurns == 1

(***************************************************************************)
(* The world: bodies and colliders                                         *)
(***************************************************************************)
Props == {"platform", "sphere1", "sphere2"}

Bodies == {"character"} \cup Props

\* createCharacter: position {0, 0, 0}; createEnvironment: the platform and
\* the two spheres
InitialPosition ==
    [b \in Bodies |->
        CASE b = "character" -> Vec(0, 0, 0)
          [] b = "platform"  -> Vec(1000, 50, 1000)
          [] b = "sphere1"   -> Vec(500, 0, 1500)
          [] b = "sphere2"   -> Vec(-500, 0, 1000)]

\* Static colliders as vertical prisms: centre, horizontal half extent or
\* radius, vertical half extent.  ground: cuboid(50, 0.1, 50) at y = -10;
\* island: cylinder(height 1.5 / 2, radius 8) at (0, -0.5, 0); tree:
\* cylinder(height 3 / 2, radius 0.5) at (0, 1, 0).
StaticColliders ==
    { [owner |-> "ground", shape |-> "box", cx |-> 0, cy |-> -1000, cz |-> 0,
       hx |-> 5000, hy |-> 10, hz |-> 5000],
      [owner |-> "island", shape |-> "round", cx |-> 0, cy |-> -50, cz |-> 0,
       hx |-> 800, hy |-> 75, hz |-> 800],
      [owner |-> "tree", shape |-> "round", cx |-> 0, cy |-> 100, cz |-> 0,
       hx |-> 50, hy |-> 150, hz |-> 50] }

\* createCollider(shape, size) attached to a body at position p:
\* capsule(size.height / 2, size.radius) has the vertical half extent
\* height / 2 + radius; box is cuboid(w/2, h/2, d/2); sphere is ball(r).
BodyCollider(b, p) ==
    CASE b = "character" ->
           [owner |-> b, shape |-> "round", cx |-> p.x, cy |-> p.y, cz |-> p.z,
            hx |-> CHARACTER_RADIUS,
            hy |-> CHARACTER_HEIGHT \div 2 + CHARACTER_RADIUS,
            hz |-> CHARACTER_RADIUS]
      [] b = "platform" ->
           [owner |-> b, shape |-> "box", cx |-> p.x, cy |-> p.y, cz |-> p.z,
            hx |-> 250, hy |-> 50, hz |-> 250]
      [] b = "sphere1" ->
           [owner |-> b, shape |-> "round", cx |-> p.x, cy |-> p.y, cz |-> p.z,
            hx |-> 100, hy |-> 100, hz |-> 100]
      [] b = "sphere2" ->
           [owner |-> b, shape |-> "round", cx |-> p.x, cy |-> p.y, cz |-> p.z,
            hx |-> 70, hy |-> 70, hz |-> 70]

\* every collider of the world for the body positions rb
WorldColliders(rb) ==
    StaticColliders \cup { BodyCollider(b, rb[b].translation) : b \in Bodies }

\* the vertical line through (x, z) crosses the collider
InColumn(c, x, z) ==
    IF c.shape = "box"
    THEN Abs(x - c.cx) <= c.hx /\ Abs(z - c.cz) <= c.hz
    ELSE (x - c.cx) * (x - c.cx) + (z - c.cz) * (z - c.cz) <= c.hx * c.hx

\* world.castRay(ray, maxToi, solid = true) for a ray pointing straight
\* down: the owners of the colliders the ray meets within maxToi.  No filter
\* is given, so every collider is a candidate, and with solid = true a
\* collider that contains the origin is hit at distance 0.
CastRayDown(colliders, origin, maxToi) ==
    { c.owner : c \in { k \in colliders :
                          /\ InColumn(k, origin.x, origin.z)
                          /\ k.cy - k.hy <= origin.y
                          /\ k.cy + k.hy >= origin.y - maxToi } }

(***************************************************************************)
(* Rigid body interface (Rapier)                                           *)
(***************************************************************************)
\* one component of velocity + impulse / mass: (c * mass + j) / mass, the
\* result rounded toward zero to the resolution of the model (1 cm/s)
AddImpulse(c, j) ==
    <<DivTrunc(c[1] * CharacterMassMilli + j[1] * 1000, CharacterMassMilli),
      DivTrunc(c[2] * CharacterMassMilli + j[2] * 1000, CharacterMassMilli)>>

\* applyImpulse on a body of mass 1: the velocity changes by the impulse
ApplyImpulse_UnitMass(v, impulse) ==
    Vec(NumAdd(v.x, impulse.x), NumAdd(v.y, impulse.y), NumAdd(v.z, impulse.z))

\* rigidBody.applyImpulse(impulse, true): the linear velocity changes at
\* once by impulse / mass, so a later linvel() returns the changed velocity
ApplyImpulse(v, impulse) ==
    Vec(AddImpulse(v.x, impulse.x),
        AddImpulse(v.y, impulse.y),
        AddImpulse(v.z, impulse.z))

(***************************************************************************)
(* physics.js                                                              *)
(***************************************************************************)
NoLog == [translation |-> <<>>, entryLinvel |-> <<>>, impulses |-> <<>>,
          dragVelocity |-> <<>>]

\* applyBuoyancy with the water test taken as <= instead of <
ApplyBuoyancy_AtSurface(p, v) ==
    IF p.y <= WATER_LEVEL
    THEN LET submergedDepth == WATER_LEVEL - p.y
             upwardForce == Vec(Num(0), Num(BUOYANCY_FORCE * submergedDepth),
                                Num(0))
             afterBuoyancy == ApplyImpulse(v, upwardForce)
             dragForce == Vec(NumScale(-WATER_DRAG, afterBuoyancy.x),
                              NumScale(-WATER_DRAG, afterBuoyancy.y),
                              NumScale(-WATER_DRAG, afterBuoyancy.z))
         IN  [linvel |-> ApplyImpulse(afterBuoyancy, dragForce),
              log |-> [translation |-> <<p>>, entryLinvel |-> <<v>>,
                       impulses |-> <<upwardForce, dragForce>>,
                       dragVelocity |-> <<afterBuoyancy>>]]
    ELSE [linvel |-> v,
          log |-> [translation |-> <<p>>, entryLinvel |-> <<v>>,
                   impulses |-> <<>>, dragVelocity |-> <<>>]]

\* applyBuoyancy with the velocity for the drag read before the buoyancy
\* impulse is applied
ApplyBuoyancy_DragReadFirst(p, v) ==
    IF p.y < WATER_LEVEL
    THEN LET submergedDepth == WATER_LEVEL - p.y
             upwardForce == Vec(Num(0), Num(BUOYANCY_FORCE * submergedDepth),
                                Num(0))
             dragForce == Vec(NumScale(-WATER_DRAG, v.x),
                              NumScale(-WATER_DRAG, v.y),
                              NumScale(-WATER_DRAG, v.z))
         IN  [linvel |-> ApplyImpulse(ApplyImpulse(v, upwardForce), dragForce),
              log |-> [translation |-> <<p>>, entryLinvel |-> <<v>>,
                       impulses |-> <<upwardForce, dragForce>>,
                       dragVelocity |-> <<v>>]]
    ELSE [linvel |-> v,
          log |-> [translation |-> <<p>>, entryLinvel |-> <<v>>,
                   impulses |-> <<>>, dragVelocity |-> <<>>]]

\* applyBuoyancy(physics, rigidBody) on a body at position p with linear
\* velocity v: the velocity afterwards and the record of what the call read
\* and applied
ApplyBuoyancy(p, v) ==
    IF p.y < WATER_LEVEL
    THEN LET submergedDepth == WATER_LEVEL - p.y
             upwardForce == Vec(Num(0), Num(BUOYANCY_FORCE * submergedDepth),
                                Num(0))
             afterBuoyancy == ApplyImpulse(v, upwardForce)
             dragRead == afterBuoyancy
             dragForce == Vec(NumScale(-WATER_DRAG, dragRead.x),
                              NumScale(-WATER_DRAG, dragRead.y),
                              NumScale(-WATER_DRAG, dragRead.z))
         IN  [linvel |-> ApplyImpulse(afterBuoyancy, dragForce),
              log |-> [translation |-> <<p>>, entryLinvel |-> <<v>>,
                       impulses |-> <<upwardForce, dragForce>>,
                       dragVelocity |-> <<dragRead>>]]
    ELSE [linvel |-> v,
          log |-> [translation |-> <<p>>, entryLinvel |-> <<v>>,
                   impulses |-> <<>>, dragVelocity |-> <<>>]]

\* updatePhysics(physics, character) applies buoyancy to these bodies only
BuoyantBodies == {"character"}

(***************************************************************************)
(* character.js                                                            *)
(***************************************************************************)
\* checkGrounded: a ray from the feet, GROUND_CHECK_DISTANCE long, against
\* every collider of the world
CheckGrounded(rb) ==
    LET position == rb["character"].translation
        rayOrigin == Vec(position.x,
                         position.y - CHARACTER_HEIGHT \div 2 + CHARACTER_RADIUS,
                         position.z)
        hit == CastRayDown(WorldColliders(rb), rayOrigin, GROUND_CHECK_DISTANCE)
    IN  hit # {}

\* updateRotation with the yaw kept within [-pi/2, 0]
UpdateRotation_Clamped(yaw, input) ==
    LET next == yaw - input.mouseX * ROTATION_PER_PIXEL
    IN  IF next > 0 THEN 0
        ELSE IF next < -QuarterTurn THEN -QuarterTurn ELSE next

\* updateRotation: character.rotation.y -= mouseX * ROTATION_SPEED * 0.01
UpdateRotation(yaw, input) == yaw - input.mouseX * ROTATION_PER_PIXEL

\* cosine and sine of a yaw that is a multiple of a quarter turn
QuarterIndex(yaw) == (yaw \div QuarterTurn) % 4

Cos(yaw) == <<1, 0, -1, 0>>[QuarterIndex(yaw) + 1]

Sin(yaw) == <<0, 1, 0, -1>>[QuarterIndex(yaw) + 1]

\* the four assignments with forward along +z
RawDirection_ForwardPlusZ(input) ==
    LET z1 == IF input.forward THEN 1 ELSE 0
        z2 == IF input.backward THEN -1 ELSE z1
        x1 == IF input.left THEN -1 ELSE 0
        x2 == IF input.right THEN 1 ELSE x1
    IN  [x |-> x2, z |-> z2]

\* direction.set(0, 0, 0) followed by the four assignments, in source order
RawDirection(input) ==
    LET z1 == IF input.forward THEN -1 ELSE 0
        z2 == IF input.backward THEN 1 ELSE z1
        x1 == IF input.left THEN -1 ELSE 0
        x2 == IF input.right THEN 1 ELSE x1
    IN  [x |-> x2, z |-> z2]

\* the direction left as assigned, without the normalisation
Normalize_Never(raw) == [x |-> <<2 * raw.x, 0>>, z |-> <<2 * raw.z, 0>>]

\* if (direction.length() > 1) direction.normalize(): the components in
\* halves, 1/sqrt(2) being the pair <<0, 1>>
Normalize(raw) ==
    IF raw.x * raw.x + raw.z * raw.z > 1
    THEN [x |-> <<0, raw.x>>, z |-> <<0, raw.z>>]
    ELSE [x |-> <<2 * raw.x, 0>>, z |-> <<2 * raw.z, 0>>]

\* direction.applyEuler(Euler(0, yaw, 0, 'YXZ')): the rotation about Y
ApplyEuler(d, yaw) ==
    [x |-> NumAdd(NumScale(Cos(yaw), d.x), NumScale(Sin(yaw), d.z)),
     z |-> NumAdd(NumScale(-Sin(yaw), d.x), NumScale(Cos(yaw), d.z))]

CalculateMovementDirection(input, yaw) ==
    ApplyEuler(Normalize(RawDirection(input)), yaw)

\* a direction component (in halves) times a speed
TimesSpeed(d, speed) == <<(d[1] * speed) \div 2, (d[2] * speed) \div 2>>

\* applyMovement with the jump not gated by the ground probe
ApplyMovement_JumpUngated(linvel, dir, input, grounded) ==
    LET movementForce == Vec(TimesSpeed(dir.x, MOVE_SPEED), linvel.y,
                             TimesSpeed(dir.z, MOVE_SPEED))
    IN  IF input.jump
        THEN [movementForce EXCEPT !.y = Num(JUMP_FORCE)]
        ELSE movementForce

\* applyMovement adding the command to the body's horizontal velocity
ApplyMovement_Accumulate(linvel, dir, input, grounded) ==
    LET movementForce ==
            Vec(NumAdd(linvel.x, TimesSpeed(dir.x, MOVE_SPEED)), linvel.y,
                NumAdd(linvel.z, TimesSpeed(dir.z, MOVE_SPEED)))
    IN  IF input.jump /\ grounded
        THEN [movementForce EXCEPT !.y = Num(JUMP_FORCE)]
        ELSE movementForce

\* applyMovement leaving the horizontal velocity of the body alone when
\* there is no movement direction
ApplyMovement_Coasting(linvel, dir, input, grounded) ==
    LET moving == dir # [x |-> Num(0), z |-> Num(0)]
        movementForce ==
            Vec(IF moving THEN TimesSpeed(dir.x, MOVE_SPEED) ELSE linvel.x,
                linvel.y,
                IF moving THEN TimesSpeed(dir.z, MOVE_SPEED) ELSE linvel.z)
    IN  IF input.jump /\ grounded
        THEN [movementForce EXCEPT !.y = Num(JUMP_FORCE)]
        ELSE movementForce

\* applyMovement: the velocity handed to setLinvel
ApplyMovement(linvel, dir, input, grounded) ==
    LET movementForce == Vec(TimesSpeed(dir.x, MOVE_SPEED), linvel.y,
                             TimesSpeed(dir.z, MOVE_SPEED))
    IN  IF input.jump /\ grounded
        THEN [movementForce EXCEPT !.y = Num(JUMP_FORCE)]
        ELSE movementForce

\* updateMeshFromBody: the mesh position copied from the body
UpdateMeshFromBody(m, rb) ==
    [m EXCEPT !["character"] = rb["character"].translation]

\* rigidBody.rotation() of the character: createCharacter calls
\* lockRotations(true) on a body created without rotation, so the solver
\* leaves the identity rotation, whose yaw is 0
BodyRotationY == 0

\* updateMeshFromBody: the mesh quaternion copied from the body's rotation;
\* the yaw of the mesh afterwards
MeshYawFromBody == BodyRotationY

\* the entry of the call log for a ray cast that throws
CastRayThrows == "castRay throws"

(***************************************************************************)
(* camera.js                                                               *)
(***************************************************************************)
CAMERA_HEIGHT == 150

CAMERA_DISTANCE == 500

CAMERA_LOOK_AHEAD == 200

\* initCamera: the controller's two ideals are new, zero vectors
InitCamera ==
    [idealPosition |-> Vec(0, 0, 0), idealLookAt |-> Vec(0, 0, 0)]

\* calculateIdealCameraPosition with the offset added to the character's
\* position vector itself, which the ideal position then copies
CalculateIdealCameraPosition_InPlace(characterPosition, yaw) ==
    LET moved == Vec(characterPosition.x + CAMERA_DISTANCE * Sin(yaw),
                     characterPosition.y + CAMERA_HEIGHT,
                     characterPosition.z + CAMERA_DISTANCE * Cos(yaw))
    IN  [idealPosition |-> moved,
         idealLookAt |->
             Vec(moved.x - CAMERA_LOOK_AHEAD * Sin(yaw),
                 moved.y + CAMERA_HEIGHT,
                 moved.z - CAMERA_LOOK_AHEAD * Cos(yaw)),
         characterPosition |-> moved]

\* calculateIdealCameraPosition: the offset (0, CAMERA_HEIGHT,
\* CAMERA_DISTANCE) and the look-ahead (0, 0, -CAMERA_LOOK_AHEAD) are turned
\* by the character's rotation and added to copies of the character's
\* position; the look-at point is raised by CAMERA_HEIGHT.  The position
\* vector of the character's mesh is the source of the copies and keeps its
\* value.
CalculateIdealCameraPosition(characterPosition, yaw) ==
    [idealPosition |->
         Vec(characterPosition.x + CAMERA_DISTANCE * Sin(yaw),
             characterPosition.y + CAMERA_HEIGHT,
             characterPosition.z + CAMERA_DISTANCE * Cos(yaw)),
     idealLookAt |->
         Vec(characterPosition.x - CAMERA_LOOK_AHEAD * Sin(yaw),
             characterPosition.y + CAMERA_HEIGHT,
             characterPosition.z - CAMERA_LOOK_AHEAD * Cos(yaw)),
     characterPosition |-> characterPosition]

(***************************************************************************)
(* the asset loaders of environment.js and character.js                    *)
(***************************************************************************)
\* an object a loader callback adds to the scene (the index tells the trees
\* apart), whether it is procedurally generated, with the kind of rigid
\* body made for it ("none" when there is none) and whether the body has a
\* collider
SceneObject(name, index, procedural, body, collider) ==
    [name |-> name, index |-> index, procedural |-> procedural,
     body |-> body, collider |-> collider]

\* the two loads, before createCharacter and createEnvironment start them,
\* and once both are under way
LoadingNotStarted == [island |-> "none", character |-> "none"]

LoadingStarted == [island |-> "pending", character |-> "pending"]

\* createCollider: the switch over the shape throws for anything but its
\* four shape names
ColliderShapes == {"box", "sphere", "capsule", "cylinder"}

CreateColliderThrows(shape) == shape \notin ColliderShapes

\* the third argument of the createCollider call in the island loader's
\* success callback: an options object where the shape name is expected
IslandColliderArgument == "[object Object]"

\* createSimpleIsland: a cylinder mesh, a fixed body and a cylinder collider
CreateSimpleIsland == SceneObject("simpleIsland", 1, TRUE, "fixed", TRUE)

\* createSimpleTree for each of the five treePositions of addTreesToIsland:
\* trunk and foliage meshes, a fixed body and a cylinder collider
AddTreesToIsland ==
    { SceneObject("simpleTree", i, TRUE, "fixed", TRUE) : i \in 1..5 }

\* the success callback of the island load: the model is added to the
\* scene; createRigidBody is called with an options object in the place of
\* the position and without isStatic, so that setTranslation receives three
\* undefined components: the build's solver either rejects them, and the
\* callback ends there, or makes a dynamic body; createCollider then throws
\* for its shape argument unless that is one of the shape names, and the
\* trees are added after it
IslandLoadedOutcomes ==
    { {SceneObject("islandModel", 1, FALSE, "none", FALSE)} }
    \cup
    { {SceneObject("islandModel", 1, FALSE, "dynamic",
                   ~CreateColliderThrows(IslandColliderArgument))}
      \cup (IF CreateColliderThrows(IslandColliderArgument)
            THEN {} ELSE AddTreesToIsland) }

\* the error callback of the island load: a warning, then createSimpleIsland
IslandLoadErrorOutcome == {CreateSimpleIsland}

\* the success callback of the character model load: the model is added to
\* the character's mesh; the error callback only logs
CharacterModelLoadedOutcome ==
    {SceneObject("characterModel", 1, FALSE, "none", FALSE)}

(***************************************************************************)
(* water-implementation.js and water-demo.js: the water level handed to    *)
(* the water physics                                                       *)
(***************************************************************************)
\* the state of a page with a water surface: which program built it,
\* config.addGui and config.waterLevel, the waterLevel field of the physics
\* object the GUI edits, water.position.y, the caller's clock, the arguments
\* of the last call of the update the animation loop makes, and the
\* arguments the update function made by createWaterPhysics received from it
WaterState(program, addGui, level, physicsLevel, y, time, caller, received) ==
    [program |-> program, addGui |-> addGui, waterLevel |-> level,
     physicsWaterLevel |-> physicsLevel, positionY |-> y,
     time |-> time, caller |-> caller, received |-> received]

\* the character controller's page builds neither
NoWater == WaterState("none", FALSE, 0, 0, 0, 0, <<>>, <<>>)

\* the values of the Water Level control, whose range is -2 .. 2
WaterLevels == {-200, -100, 0, 100, 200}

\* the frame times, in milliseconds, and the time the clock is followed to
DeltaTimes == {16, 33}

MaxWaterTime == 66

\* the function addWaterSimulation installs as waterPhysics.update when
\* config.addGui is set: its parameters (deltaTime, time) are bound to the
\* first two arguments of the call, and the update made by
\* createWaterPhysics is called with (deltaTime, physics.waterLevel, time)
WaterPhysicsUpdateWithGui(physicsWaterLevel, arguments) ==
    LET deltaTime == arguments[1]
        time == arguments[2]
    IN  <<deltaTime, physicsWaterLevel, time>>

\* the update method addWaterSimulation returns: it calls
\* waterPhysics.update(deltaTime, config.waterLevel, time), which is the
\* function above with the GUI and the update made by createWaterPhysics
\* without; the value is what the latter receives
SimulationUpdate(w, deltaTime, time) ==
    LET arguments == <<deltaTime, w.waterLevel, time>>
    IN  IF w.addGui
        THEN WaterPhysicsUpdateWithGui(w.physicsWaterLevel, arguments)
        ELSE arguments

\* animate of the demo: waterPhysics.update(deltaTime, 0, time)
DemoUpdate(deltaTime, time) == <<deltaTime, 0, time>>

(***************************************************************************)
(* input.js                                                                *)
(***************************************************************************)
\* the key codes the keyboard events of the frame model are drawn from: both
\* keys of one axis, the jump key and a key updateKeyState ignores (every
\* snapshot, KeyA and KeyD included, is covered by the locomotion
\* specification)
KeyCodes == {"KeyW", "KeyS", "Space", "KeyQ"}

\* movementX values of a mousemove event, in pixels
MouseValues == {-QuarterTurn, 0, QuarterTurn}

InitialInputState ==
    [forward |-> FALSE, backward |-> FALSE, left |-> FALSE, right |-> FALSE,
     jump |-> FALSE, mouseX |-> 0, pointerLocked |-> FALSE]

UpdateKeyState(st, code, pressed) ==
    CASE code = "KeyW"  -> [st EXCEPT !.forward = pressed]
      [] code = "KeyS"  -> [st EXCEPT !.backward = pressed]
      [] code = "KeyA"  -> [st EXCEPT !.left = pressed]
      [] code = "KeyD"  -> [st EXCEPT !.right = pressed]
      [] code = "Space" -> [st EXCEPT !.jump = pressed]
      [] OTHER          -> st

\* getInputState: a copy of the input state
GetInputState(st) == st

\* getInputState with "return inputState": the snapshot is the module's
\* object itself
SnapshotShared_SameObject == TRUE

\* getInputState returns { ...inputState }, a new object: the snapshot does
\* not share its fields with the module's inputState
SnapshotShared == FALSE

\* what a snapshot taken earlier reads after the module's inputState was
\* written and has become st
SnapshotAfterWrite(snapshot, st) == IF SnapshotShared THEN st ELSE snapshot

\* the value of the local inputState of animate outside a frame
NoInput == <<>>

(***************************************************************************)
(* world.step(): the outcomes of one solver step                           *)
(***************************************************************************)
Body(p, v) == [translation |-> p, linvel |-> v]

\* where a step may leave the character: afloat at the spawn point, one
\* metre under water and drifting, half a metre above the water and rising,
\* at rest on the sea floor (capsule bottom on the ground collider's top)
CharacterStepOutcomes ==
    { Body(Vec(0, 0, 0), ZeroVelocity),
      Body(Vec(2000, -100, 0), Vec(Num(300), Num(-200), Num(-100))),
      Body(Vec(2000, 50, -500), Vec(Num(0), Num(400), Num(0))),
      Body(Vec(2000, -840, 0), ZeroVelocity) }

\* where a step may leave the props: all at their spawn points; the platform
\* and the first sphere sinking while the second sphere is still at the
\* surface
PropStepOutcomes ==
    { [b \in Props |-> Body(InitialPosition[b], ZeroVelocity)],
      [b \in Props |->
          CASE b = "platform" -> Body(Vec(1000, -30, 1000),
                                      Vec(Num(0), Num(-50), Num(0)))
            [] b = "sphere1"  -> Body(Vec(500, -120, 1500),
                                      Vec(Num(0), Num(-80), Num(0)))
            [] b = "sphere2"  -> Body(InitialPosition[b], ZeroVelocity)] }

(***************************************************************************)
(* main.js: the frame                                                      *)
(***************************************************************************)
\* animate with the character update placed before the physics update
AnimateOrder_LocomotionBeforeStep ==
    <<"updateCharacter", "updatePhysics", "updateCamera",
      "resetMouseMovement", "renderScene">>

\* animate with the physics update placed after the camera update
AnimateOrder_PhysicsAfterCamera ==
    <<"updateCharacter", "updateCamera", "updatePhysics",
      "resetMouseMovement", "renderScene">>

\* the calls of animate after getInputState, in source order
AnimateOrder ==
    <<"updatePhysics", "updateCharacter", "updateCamera",
      "resetMouseMovement", "renderScene">>

\* updatePhysics stepping the world a second time before the buoyancy
UpdatePhysicsCalls_StepTwice == <<"world.step", "world.step", "applyBuoyancy">>

\* the calls of updatePhysics and of updateCharacter, in source order
UpdatePhysicsCalls == <<"world.step", "applyBuoyancy">>

\* updateCharacter probing the ground at its end, after the velocity write
UpdateCharacterCalls_ProbeLast ==
    <<"updateRotation", "calculateMovementDirection", "applyMovement",
      "updateMeshFromBody", "checkGrounded">>

UpdateCharacterCalls ==
    <<"checkGrounded", "updateRotation", "calculateMovementDirection",
      "applyMovement", "updateMeshFromBody">>

IndexOf(seq, e) ==
    IF \E i \in 1..Len(seq) : seq[i] = e
    THEN CHOOSE i \in 1..Len(seq) :
             seq[i] = e /\ \A j \in 1..(i - 1) : seq[j] # e
    ELSE 0

PhaseAfter(p) ==
    IF IndexOf(AnimateOrder, p) = Len(AnimateOrder)
    THEN "idle"
    ELSE AnimateOrder[IndexOf(AnimateOrder, p) + 1]

\* init(): the calls that follow "physicsWorld = await initPhysics()", in
\* source order; initDone counts the calls that have returned
InitStages ==
    <<"initPhysics", "initScene", "initGUI", "initInput", "createCharacter",
      "initCamera", "createEnvironment">>

\* the module variables of main.js that are no longer null, and the event
\* listeners initInput registers
PhysicsWorldSet == initDone >= IndexOf(InitStages, "initPhysics")

CharacterSet == initDone >= IndexOf(InitStages, "createCharacter")

ListenersRegistered == initDone >= IndexOf(InitStages, "initInput")

\* the end of a call of animate: the next call, or the end of the frame,
\* where the local inputState goes out of scope
Finish(p) ==
    /\ pc' = PhaseAfter(p)
    /\ frameInput' = IF PhaseAfter(p) = "idle" THEN NoInput ELSE frameInput

Init ==
    /\ pc = "init"
    /\ initDone = 0
    /\ meshYaw = 0
    /\ inputState = InitialInputState
    /\ frameInput = NoInput
    /\ rigidBody = [b \in Bodies |-> Body(InitialPosition[b], ZeroVelocity)]
    /\ isGrounded = FALSE
    /\ rotationY = 0
    /\ direction = [x |-> Num(0), z |-> Num(0)]
    /\ velocity = ZeroVelocity
    /\ mesh = InitialPosition
    /\ calls = <<>>
    /\ buoyancyLog = [b \in Bodies |-> NoLog]
    /\ cameraController = InitCamera
    /\ loading = LoadingNotStarted
    /\ sceneObjects = {}
    /\ waterSim = NoWater

\* animate asking for the next frame as its last statement, after
\* renderScene (where the call log, which ends with the frame, does not
\* show it)
AnimateHead_ScheduleLast == <<"getInputState">>

\* the first two calls of animate, in source order
AnimateHead == <<"requestAnimationFrame", "getInputState">>

\* the head of animate: requestAnimationFrame(animate), then the snapshot
\* of the input
StartFrame ==
    /\ pc' = AnimateOrder[1]
    /\ frameInput' = GetInputState(inputState)
    /\ calls' = AnimateHead
    /\ UNCHANGED <<inputState, rigidBody, isGrounded, rotationY, direction,
                   velocity, mesh, buoyancyLog, meshYaw>>

\* init() with a rejected initPhysics() or with one of the calls after it
\* throwing: the stages before the failing one are done, the promise of
\* init rejects into the catch handler and animate() is not reached
InitRejected_StartsLoop ==
    /\ pc = "init"
    /\ \E failing \in 1..Len(InitStages) : initDone' = failing - 1
    /\ pc' = "idle"
    /\ UNCHANGED <<inputState, frameInput, rigidBody, isGrounded, rotationY,
                   direction, velocity, mesh, calls, buoyancyLog, meshYaw>>
    /\ UNCHANGED <<cameraController, loading, sceneObjects, waterSim>>

InitRejected ==
    /\ pc = "init"
    /\ \E failing \in 1..Len(InitStages) : initDone' = failing - 1
    /\ pc' = "initFailed"
    /\ loading' = [loading EXCEPT
                      !.character = IF CharacterSet' THEN "pending" ELSE @]
    /\ UNCHANGED <<inputState, frameInput, rigidBody, isGrounded, rotationY,
                   direction, velocity, mesh, calls, buoyancyLog, meshYaw>>
    /\ UNCHANGED <<cameraController, sceneObjects, waterSim>>

\* init() running to its end: initPhysics() resolves, every later call
\* returns, and the last statement calls animate() for the first frame
InitResolved ==
    /\ pc = "init"
    /\ initDone' = Len(InitStages)
    /\ loading' = LoadingStarted
    /\ StartFrame
    /\ UNCHANGED <<cameraController, sceneObjects, waterSim>>

\* animate as the requestAnimationFrame callback
Animate ==
    /\ pc = "idle"
    /\ StartFrame
    /\ UNCHANGED initDone
    /\ UNCHANGED <<cameraController, loading, sceneObjects, waterSim>>

\* if (physicsWorld) updatePhysics(physicsWorld, character): one step, then
\* buoyancy
UpdatePhysics ==
    /\ pc = "updatePhysics"
    /\ IF PhysicsWorldSet
       THEN /\ \E c \in CharacterStepOutcomes, pr \in PropStepOutcomes :
                 LET stepped == [b \in Bodies |->
                                   IF b = "character" THEN c ELSE pr[b]]
                     buoyancy == [b \in BuoyantBodies |->
                                    ApplyBuoyancy(stepped[b].translation,
                                                  stepped[b].linvel)]
                 IN  /\ rigidBody' =
                           [b \in Bodies |->
                               IF b \in BuoyantBodies
                               THEN Body(stepped[b].translation,
                                         buoyancy[b].linvel)
                               ELSE stepped[b]]
                     /\ buoyancyLog' =
                           [b \in Bodies |->
                               IF b \in BuoyantBodies THEN buoyancy[b].log
                                                      ELSE NoLog]
            /\ calls' = calls \o UpdatePhysicsCalls
       ELSE UNCHANGED <<rigidBody, buoyancyLog, calls>>
    /\ Finish("updatePhysics")
    /\ UNCHANGED <<inputState, isGrounded, rotationY, direction, velocity,
                   mesh, initDone, meshYaw>>
    /\ UNCHANGED <<cameraController, loading, sceneObjects, waterSim>>

\* if (character && inputState) updateCharacter(character, inputState,
\* physicsWorld, camera).  world.castRay is a call into the solver that may
\* throw; neither checkGrounded nor updateCharacter nor animate has a
\* try/catch, so the exception leaves animate: nothing after the ray cast
\* runs in this frame, and the next frame is the one requestAnimationFrame
\* has already scheduled: without that call before the throw the loop would
\* have stopped.
UpdateCharacter ==
    /\ pc = "updateCharacter"
    /\ \/ /\ CharacterSet
          /\ LET grounded == CheckGrounded(rigidBody)
                 yaw == UpdateRotation(rotationY, frameInput)
                 dir == CalculateMovementDirection(frameInput, yaw)
                 movementForce == ApplyMovement(rigidBody["character"].linvel,
                                                dir, frameInput, grounded)
                 moved == [rigidBody EXCEPT
                              !["character"].linvel = movementForce]
             IN  /\ isGrounded' = grounded
                 /\ rotationY' = yaw
                 /\ direction' = dir
                 /\ rigidBody' = moved
                 /\ velocity' = movementForce
                 /\ mesh' = UpdateMeshFromBody(mesh, moved)
                 /\ meshYaw' = MeshYawFromBody
          /\ calls' = calls \o UpdateCharacterCalls
          /\ Finish("updateCharacter")
       \/ /\ CharacterSet
          /\ calls' = calls \o <<"checkGrounded", CastRayThrows>>
          /\ pc' = IF IndexOf(calls, "requestAnimationFrame") > 0
                   THEN "idle"
                   ELSE "stopped"
          /\ frameInput' = NoInput
          /\ UNCHANGED <<isGrounded, rotationY, direction, rigidBody, velocity,
                         mesh, meshYaw>>
       \/ /\ ~CharacterSet
          /\ Finish("updateCharacter")
          /\ UNCHANGED <<isGrounded, rotationY, direction, rigidBody, velocity,
                         mesh, meshYaw, calls>>
    /\ UNCHANGED <<inputState, buoyancyLog, initDone>>
    /\ UNCHANGED <<cameraController, loading, sceneObjects, waterSim>>

\* if (cameraController && character) updateCamera(cameraController,
\* character, inputState): the ideals are computed from the position of the
\* character's mesh and from the character's rotation.  camera.position and
\* target, which smoothCameraMovement lerps toward the ideals, and the
\* camera's orientation set by lookAt are read by the renderer only and are
\* not part of the state.
UpdateCamera ==
    /\ pc = "updateCamera"
    /\ LET ideal == CalculateIdealCameraPosition(mesh["character"], rotationY)
       IN  /\ cameraController' =
                 [idealPosition |-> ideal.idealPosition,
                  idealLookAt |-> ideal.idealLookAt]
           /\ mesh' = [mesh EXCEPT !["character"] = ideal.characterPosition]
    /\ calls' = Append(calls, "updateCamera")
    /\ Finish("updateCamera")
    /\ UNCHANGED <<inputState, rigidBody, isGrounded, rotationY, direction,
                   velocity, buoyancyLog, initDone, meshYaw>>
    /\ UNCHANGED <<loading, sceneObjects, waterSim>>

\* resetMouseMovement leaving the pending movement in place
ResetMouseMovement_NoClear ==
    /\ pc = "resetMouseMovement"
    /\ inputState' = inputState
    /\ calls' = Append(calls, "resetMouseMovement")
    /\ pc' = PhaseAfter("resetMouseMovement")
    /\ frameInput' = SnapshotAfterWrite(frameInput, inputState')
    /\ UNCHANGED <<rigidBody, isGrounded, rotationY, direction, velocity,
                   mesh, buoyancyLog, initDone, meshYaw>>
    /\ UNCHANGED <<cameraController, loading, sceneObjects, waterSim>>

\* resetMouseMovement writes the module's inputState
ResetMouseMovement ==
    /\ pc = "resetMouseMovement"
    /\ inputState' = [inputState EXCEPT !.mouseX = 0]
    /\ calls' = Append(calls, "resetMouseMovement")
    /\ pc' = PhaseAfter("resetMouseMovement")
    /\ frameInput' = SnapshotAfterWrite(frameInput, inputState')
    /\ UNCHANGED <<rigidBody, isGrounded, rotationY, direction, velocity,
                   mesh, buoyancyLog, initDone, meshYaw>>
    /\ UNCHANGED <<cameraController, loading, sceneObjects, waterSim>>

RenderScene ==
    /\ pc = "renderScene"
    /\ calls' = Append(calls, "renderScene")
    /\ Finish("renderScene")
    /\ UNCHANGED <<inputState, rigidBody, isGrounded, rotationY, direction,
                   velocity, mesh, buoyancyLog, initDone, meshYaw>>
    /\ UNCHANGED <<cameraController, loading, sceneObjects, waterSim>>

(***************************************************************************)
(* input.js: the event handlers, which run between frames                  *)
(***************************************************************************)
\* no frame is running and initInput has registered the listeners
BetweenFrames == pc \in {"idle", "initFailed"} /\ ListenersRegistered

HandleKeyDown ==
    /\ BetweenFrames
    /\ \E code \in KeyCodes :
         inputState' = UpdateKeyState(inputState, code, TRUE)
    /\ UNCHANGED <<pc, frameInput, rigidBody, isGrounded, rotationY,
                   direction, velocity, mesh, calls, buoyancyLog, initDone, meshYaw>>
    /\ UNCHANGED <<cameraController, loading, sceneObjects, waterSim>>

HandleKeyUp ==
    /\ BetweenFrames
    /\ \E code \in KeyCodes :
         inputState' = UpdateKeyState(inputState, code, FALSE)
    /\ UNCHANGED <<pc, frameInput, rigidBody, isGrounded, rotationY,
                   direction, velocity, mesh, calls, buoyancyLog, initDone, meshYaw>>
    /\ UNCHANGED <<cameraController, loading, sceneObjects, waterSim>>

\* handleMouseMove; the yaw the movement leads to is kept within
\* MaxYawTurns quarter turns
HandleMouseMove ==
    /\ BetweenFrames
    /\ \E movementX \in MouseValues :
         /\ Abs(rotationY - movementX * ROTATION_PER_PIXEL)
               <= MaxYawTurns * QuarterTurn
         /\ inputState' = IF inputState.pointerLocked
                          THEN [inputState EXCEPT !.mouseX = movementX]
                          ELSE inputState
    /\ UNCHANGED <<pc, frameInput, rigidBody, isGrounded, rotationY,
                   direction, velocity, mesh, calls, buoyancyLog, initDone, meshYaw>>
    /\ UNCHANGED <<cameraController, loading, sceneObjects, waterSim>>

HandlePointerLockChange ==
    /\ BetweenFrames
    /\ \E locked \in BOOLEAN :
         inputState' = [inputState EXCEPT !.pointerLocked = locked]
    /\ UNCHANGED <<pc, frameInput, rigidBody, isGrounded, rotationY,
                   direction, velocity, mesh, calls, buoyancyLog, initDone, meshYaw>>
    /\ UNCHANGED <<cameraController, loading, sceneObjects, waterSim>>

Next ==
    \/ InitResolved
    \/ InitRejected
    \/ Animate
    \/ UpdatePhysics
    \/ UpdateCharacter
    \/ UpdateCamera
    \/ ResetMouseMovement
    \/ RenderScene
    \/ HandleKeyDown
    \/ HandleKeyUp
    \/ HandleMouseMove
    \/ HandlePointerLockChange

Spec == Init /\ [][Next]_vars

\* the frame loop on its own, with no input event between the frames, and
\* with its scheduling: the browser runs the callback that
\* requestAnimationFrame registered, and a call of animate, once started,
\* runs on until it returns or throws
FrameLoopNext ==
    \/ InitResolved
    \/ Animate
    \/ UpdatePhysics
    \/ UpdateCharacter
    \/ UpdateCamera
    \/ ResetMouseMovement
    \/ RenderScene

SpecFrameLoop ==
    /\ Init
    /\ [][FrameLoopNext]_vars
    /\ WF_vars(Animate)
    /\ WF_vars(UpdatePhysics)
    /\ WF_vars(UpdateCharacter)
    /\ WF_vars(UpdateCamera)
    /\ WF_vars(ResetMouseMovement)
    /\ WF_vars(RenderScene)

(***************************************************************************)
(* The locomotion functions on their own: calculateMovementDirection and   *)
(* applyMovement applied to every snapshot, grounded flag, yaw and body    *)
(* velocity, call after call                                               *)
(***************************************************************************)
LocoInputs ==
    { [forward |-> f, backward |-> b, left |-> l, right |-> r, jump |-> j,
       mouseX |-> 0, pointerLocked |-> TRUE] :
        f \in BOOLEAN, b \in BOOLEAN, l \in BOOLEAN, r \in BOOLEAN,
        j \in BOOLEAN }

LocoYaws == { k * QuarterTurn : k \in (-MaxYawTurns)..MaxYawTurns }

LocoVelocities ==
    { ZeroVelocity,
      Vec(Num(300), Num(-200), Num(-100)),
      Vec(Num(0), Num(400), Num(0)),
      Vec(<<0, 250>>, Num(JUMP_FORCE), <<0, -250>>) }

LocoInit ==
    /\ pc = "calculateMovementDirection"
    /\ initDone = Len(InitStages)
    /\ meshYaw = 0
    /\ inputState = InitialInputState
    /\ frameInput \in LocoInputs
    /\ \E v \in LocoVelocities :
         rigidBody = [b \in Bodies |->
                        Body(InitialPosition[b],
                             IF b = "character" THEN v ELSE ZeroVelocity)]
    /\ isGrounded \in BOOLEAN
    /\ rotationY \in LocoYaws
    /\ direction = [x |-> Num(0), z |-> Num(0)]
    /\ velocity = ZeroVelocity
    /\ mesh = InitialPosition
    /\ calls = <<>>
    /\ buoyancyLog = [b \in Bodies |-> NoLog]
    /\ cameraController = InitCamera
    /\ loading = LoadingNotStarted
    /\ sceneObjects = {}
    /\ waterSim = NoWater

LocoCalculateMovementDirection ==
    /\ pc = "calculateMovementDirection"
    /\ direction' = CalculateMovementDirection(frameInput, rotationY)
    /\ pc' = "applyMovement"
    /\ UNCHANGED <<inputState, frameInput, rigidBody, isGrounded, rotationY,
                   velocity, mesh, calls, buoyancyLog, initDone, meshYaw>>
    /\ UNCHANGED <<cameraController, loading, sceneObjects, waterSim>>

LocoApplyMovement ==
    /\ pc = "applyMovement"
    /\ LET movementForce == ApplyMovement(rigidBody["character"].linvel,
                                          direction, frameInput, isGrounded)
       IN  /\ rigidBody' = [rigidBody EXCEPT !["character"].linvel =
                                                movementForce]
           /\ velocity' = movementForce
    /\ pc' = "locomotionDone"
    /\ UNCHANGED <<inputState, frameInput, isGrounded, rotationY, direction,
                   mesh, calls, buoyancyLog, initDone, meshYaw>>
    /\ UNCHANGED <<cameraController, loading, sceneObjects, waterSim>>

\* between two calls the snapshot, the probe result, the yaw and the body's
\* velocity may all have changed
LocoNextFrame ==
    /\ pc = "locomotionDone"
    /\ frameInput' \in LocoInputs
    /\ isGrounded' \in BOOLEAN
    /\ rotationY' \in LocoYaws
    /\ \E v \in LocoVelocities \cup {rigidBody["character"].linvel} :
         rigidBody' = [rigidBody EXCEPT !["character"].linvel = v]
    /\ pc' = "calculateMovementDirection"
    /\ UNCHANGED <<inputState, direction, velocity, mesh, calls, buoyancyLog, initDone, meshYaw>>
    /\ UNCHANGED <<cameraController, loading, sceneObjects, waterSim>>

LocoNext ==
    \/ LocoCalculateMovementDirection
    \/ LocoApplyMovement
    \/ LocoNextFrame

SpecLocomotion == LocoInit /\ [][LocoNext]_vars

(***************************************************************************)
(* applyBuoyancy on its own: the call repeated on a submerged body that    *)
(* nothing else acts on (no step, no velocity write in between)            *)
(***************************************************************************)
DragDepths == {1, 100, 840}

DragComponents == {Num(-500), Num(-13), Num(1), Num(300), <<0, 250>>, <<0, -250>>}

DragInit ==
    /\ pc = "applyBuoyancy"
    /\ initDone = Len(InitStages)
    /\ meshYaw = 0
    /\ inputState = InitialInputState
    /\ frameInput = NoInput
    /\ \E d \in DragDepths, vx \in DragComponents, vz \in DragComponents :
         rigidBody = [b \in Bodies |->
                        IF b = "character"
                        THEN Body(Vec(2000, WATER_LEVEL - d, 0),
                                  Vec(vx, Num(0), vz))
                        ELSE Body(InitialPosition[b], ZeroVelocity)]
    /\ isGrounded = FALSE
    /\ rotationY = 0
    /\ direction = [x |-> Num(0), z |-> Num(0)]
    /\ velocity = ZeroVelocity
    /\ mesh = InitialPosition
    /\ calls = <<>>
    /\ buoyancyLog = [b \in Bodies |-> NoLog]
    /\ cameraController = InitCamera
    /\ loading = LoadingNotStarted
    /\ sceneObjects = {}
    /\ waterSim = NoWater

DragApplyBuoyancy ==
    /\ pc = "applyBuoyancy"
    /\ LET out == ApplyBuoyancy(rigidBody["character"].translation,
                                rigidBody["character"].linvel)
       IN  /\ rigidBody' = [rigidBody EXCEPT !["character"].linvel = out.linvel]
           /\ buoyancyLog' = [buoyancyLog EXCEPT !["character"] = out.log]
    /\ UNCHANGED <<pc, inputState, frameInput, isGrounded, rotationY,
                   direction, velocity, mesh, calls, initDone, meshYaw>>
    /\ UNCHANGED <<cameraController, loading, sceneObjects, waterSim>>

DragNext == DragApplyBuoyancy

SpecDrag == DragInit /\ [][DragNext]_vars

(***************************************************************************)
(* The asset loads: the callbacks of the two loaders run between frames,   *)
(* as the event handlers do.  The specification starts after the first     *)
(* frame, which init() runs before any callback can, with the bodies left  *)
(* at their spawn points by the step.                                      *)
(***************************************************************************)
LoadingInit ==
    LET stepped == [b \in Bodies |-> Body(InitialPosition[b], ZeroVelocity)]
        buoyancy == [b \in BuoyantBodies |->
                        ApplyBuoyancy(stepped[b].translation,
                                      stepped[b].linvel)]
        afterPhysics == [b \in Bodies |->
                            IF b \in BuoyantBodies
                            THEN Body(stepped[b].translation,
                                      buoyancy[b].linvel)
                            ELSE stepped[b]]
        input == GetInputState(InitialInputState)
        yaw == UpdateRotation(0, input)
        dir == CalculateMovementDirection(input, yaw)
        movementForce == ApplyMovement(afterPhysics["character"].linvel, dir,
                                       input, CheckGrounded(afterPhysics))
        moved == [afterPhysics EXCEPT !["character"].linvel = movementForce]
        ideal == CalculateIdealCameraPosition(
                     UpdateMeshFromBody(InitialPosition, moved)["character"],
                     yaw)
    IN  /\ pc = "idle"
        /\ initDone = Len(InitStages)
        /\ meshYaw = MeshYawFromBody
        /\ inputState = InitialInputState
        /\ frameInput = NoInput
        /\ rigidBody = moved
        /\ isGrounded = CheckGrounded(afterPhysics)
        /\ rotationY = yaw
        /\ direction = dir
        /\ velocity = movementForce
        /\ mesh = UpdateMeshFromBody(InitialPosition, moved)
        /\ calls = <<"requestAnimationFrame", "getInputState">>
                   \o UpdatePhysicsCalls \o UpdateCharacterCalls
                   \o <<"updateCamera", "resetMouseMovement", "renderScene">>
        /\ buoyancyLog = [b \in Bodies |->
                             IF b \in BuoyantBodies THEN buoyancy[b].log
                                                    ELSE NoLog]
        /\ cameraController = [idealPosition |-> ideal.idealPosition,
                               idealLookAt |-> ideal.idealLookAt]
        /\ loading = LoadingStarted
        /\ sceneObjects = {}
        /\ waterSim = NoWater

frameVars == <<pc, inputState, frameInput, rigidBody, isGrounded, rotationY,
               direction, velocity, mesh, calls, buoyancyLog, initDone,
               meshYaw, cameraController>>

\* loader.load('/models/island.glb', ...): the success callback
IslandLoaded ==
    /\ BetweenFrames
    /\ loading.island = "pending"
    /\ loading' = [loading EXCEPT !.island = "loaded"]
    /\ \E added \in IslandLoadedOutcomes :
           sceneObjects' = sceneObjects \cup added
    /\ UNCHANGED <<frameVars, waterSim>>

\* loader.load('/models/island.glb', ...): the error callback
IslandLoadError ==
    /\ BetweenFrames
    /\ loading.island = "pending"
    /\ loading' = [loading EXCEPT !.island = "failed"]
    /\ sceneObjects' = sceneObjects \cup IslandLoadErrorOutcome
    /\ UNCHANGED <<frameVars, waterSim>>

\* loader.load(modelPath, ...) of loadCharacterModel: the success callback
CharacterModelLoaded ==
    /\ BetweenFrames
    /\ loading.character = "pending"
    /\ loading' = [loading EXCEPT !.character = "loaded"]
    /\ sceneObjects' = sceneObjects \cup CharacterModelLoadedOutcome
    /\ UNCHANGED <<frameVars, waterSim>>

\* loader.load(modelPath, ...) of loadCharacterModel: the error callback
CharacterModelLoadError ==
    /\ BetweenFrames
    /\ loading.character = "pending"
    /\ loading' = [loading EXCEPT !.character = "failed"]
    /\ UNCHANGED <<frameVars, sceneObjects, waterSim>>

LoadingNext ==
    \/ IslandLoaded
    \/ IslandLoadError
    \/ CharacterModelLoaded
    \/ CharacterModelLoadError
    \/ HandleKeyDown
    \/ HandleKeyUp
    \/ HandleMouseMove
    \/ HandlePointerLockChange

SpecLoading == LoadingInit /\ [][LoadingNext]_vars

(***************************************************************************)
(* The water pages: a page built by addWaterSimulation, with any of the    *)
(* configurations, or the demo; the animation loop calls the update once   *)
(* a frame, and the demo's Water Level control may change between frames.  *)
(***************************************************************************)
WaterInit ==
    /\ pc = "init"
    /\ initDone = 0
    /\ meshYaw = 0
    /\ inputState = InitialInputState
    /\ frameInput = NoInput
    /\ rigidBody = [b \in Bodies |-> Body(InitialPosition[b], ZeroVelocity)]
    /\ isGrounded = FALSE
    /\ rotationY = 0
    /\ direction = [x |-> Num(0), z |-> Num(0)]
    /\ velocity = ZeroVelocity
    /\ mesh = InitialPosition
    /\ calls = <<>>
    /\ buoyancyLog = [b \in Bodies |-> NoLog]
    /\ cameraController = InitCamera
    /\ loading = LoadingNotStarted
    /\ sceneObjects = {}
    /\ waterSim \in
          { WaterState("simulation", addGui, level, level, 0, 0, <<>>, <<>>) :
                addGui \in BOOLEAN, level \in WaterLevels }
          \cup {WaterState("demo", TRUE, 0, 0, 0, 0, <<>>, <<>>)}

\* the animation loop of a page that uses addWaterSimulation: it calls the
\* returned update with its frame time and its clock
SimulationFrame ==
    /\ waterSim.program = "simulation"
    /\ \E deltaTime \in DeltaTimes :
          /\ waterSim.time + deltaTime <= MaxWaterTime
          /\ waterSim' =
                [waterSim EXCEPT
                    !.time = @ + deltaTime,
                    !.caller = <<deltaTime, waterSim.time + deltaTime>>,
                    !.received = SimulationUpdate(waterSim, deltaTime,
                                                  waterSim.time + deltaTime)]
    /\ UNCHANGED <<frameVars, loading, sceneObjects>>

\* animate of water-demo.js
DemoAnimate ==
    /\ waterSim.program = "demo"
    /\ \E deltaTime \in DeltaTimes :
          /\ waterSim.time + deltaTime <= MaxWaterTime
          /\ waterSim' =
                [waterSim EXCEPT
                    !.time = @ + deltaTime,
                    !.caller = <<deltaTime, waterSim.time + deltaTime>>,
                    !.received = DemoUpdate(deltaTime,
                                            waterSim.time + deltaTime)]
    /\ UNCHANGED <<frameVars, loading, sceneObjects>>

\* the Water Level control of createWaterGUI: the controller writes the
\* value to physics.waterLevel, and onChange moves the water surface to it
DemoGuiWaterLevel ==
    /\ waterSim.program = "demo"
    /\ \E value \in WaterLevels :
          waterSim' = [waterSim EXCEPT !.physicsWaterLevel = value,
                                       !.positionY = value]
    /\ UNCHANGED <<frameVars, loading, sceneObjects>>

WaterNext ==
    \/ SimulationFrame
    \/ DemoAnimate
    \/ DemoGuiWaterLevel

SpecWater == WaterInit /\ [][WaterNext]_vars

(***************************************************************************)
(* Claims                                                                  *)
(***************************************************************************)
CharacterBody == rigidBody["character"]

\* this frame's updateCharacter has run and the frame is not over
AfterUpdateCharacter ==
    /\ pc \in {"updateCamera", "resetMouseMovement", "renderScene"}
    /\ IndexOf(calls, "applyMovement") > 0

\* the ray of checkGrounded against every collider but the character's own
OtherColliderHit(rb) ==
    LET position == rb["character"].translation
        rayOrigin == Vec(position.x,
                         position.y - CHARACTER_HEIGHT \div 2 + CHARACTER_RADIUS,
                         position.z)
    IN  CastRayDown({ c \in WorldColliders(rb) : c.owner # "character" },
                    rayOrigin, GROUND_CHECK_DISTANCE) # {}

\* C1: in every applyMovement call, jump held and grounded writes the
\* vertical velocity JUMP_FORCE whatever it was, and an ungrounded character
\* keeps the vertical velocity of the body, jump or not; the rule holds for
\* every call, not only the first.
C1_JumpGating ==
    [][pc = "applyMovement" /\ pc' = "locomotionDone" =>
         /\ (frameInput.jump /\ isGrounded) =>
               rigidBody'["character"].linvel.y = Num(JUMP_FORCE)
         /\ ~isGrounded =>
               rigidBody'["character"].linvel.y = CharacterBody.linvel.y]_vars

\* applyMovement has written a jump for a grounded, moving character
C1_Witness ==
    /\ pc = "locomotionDone"
    /\ frameInput.jump /\ isGrounded
    /\ CharacterBody.linvel.y = Num(JUMP_FORCE)
    /\ velocity.y = Num(JUMP_FORCE)
    /\ direction # [x |-> Num(0), z |-> Num(0)]

\* C2: the ground probe excludes the character's own collider, so the
\* character is grounded iff another collider lies within
\* GROUND_CHECK_DISTANCE below the ray origin, and a character in mid-air
\* that holds jump does not get the vertical velocity JUMP_FORCE.
C2_ProbeExcludesOwnCollider ==
    AfterUpdateCharacter =>
        /\ isGrounded <=> OtherColliderHit(rigidBody)
        /\ (frameInput.jump /\ ~OtherColliderHit(rigidBody)) =>
              CharacterBody.linvel.y # Num(JUMP_FORCE)

\* C3: at yaw 0, forward and backward held together give no velocity along
\* z, and left and right held together give no velocity along x.
C3_OpposingIntentsCancel ==
    (AfterUpdateCharacter /\ rotationY = 0) =>
        /\ (frameInput.forward /\ frameInput.backward) =>
              (direction.z = Num(0) /\ CharacterBody.linvel.z = Num(0))
        /\ (frameInput.left /\ frameInput.right) =>
              (direction.x = Num(0) /\ CharacterBody.linvel.x = Num(0))

\* the depth applyBuoyancy computed for the character in this frame
LoggedDepth == WATER_LEVEL - buoyancyLog["character"].translation[1].y

BuoyancyEvaluated == Len(buoyancyLog["character"].translation) = 1

\* C4: a body at or above the water level gets no impulse at all; a body at
\* depth d > 0 gets (0, BUOYANCY_FORCE * d, 0) as its first impulse, which is
\* larger than the first impulse at any smaller depth (depth 1 m gives 20,
\* that is 2000 in the model's units).
C4_BuoyancySignAndMonotonicity ==
    BuoyancyEvaluated =>
        LET log == buoyancyLog["character"]
        IN  /\ LoggedDepth <= 0 => log.impulses = <<>>
            /\ LoggedDepth > 0 =>
                  /\ Len(log.impulses) >= 1
                  /\ log.impulses[1] =
                        Vec(Num(0), Num(BUOYANCY_FORCE * LoggedDepth), Num(0))
                  /\ LoggedDepth = 100 => log.impulses[1].y = Num(2000)
                  /\ \A o \in CharacterStepOutcomes :
                        LET d == WATER_LEVEL - o.translation.y
                            other == ApplyBuoyancy(o.translation,
                                                   o.linvel).log.impulses
                        IN  (0 < d /\ d < LoggedDepth) =>
                               /\ Len(other) >= 1
                               /\ other[1].y[1] < log.impulses[1].y[1]

\* the character one metre under water has received the impulse 20
C4_Witness ==
    /\ BuoyancyEvaluated
    /\ LoggedDepth = 100
    /\ Len(buoyancyLog["character"].impulses) = 2
    /\ buoyancyLog["character"].impulses[1].y = Num(2000)

\* C5 as stated: the velocity the drag is computed from is the velocity the
\* body had before this call's buoyancy impulse.
C5_DragFromVelocityBeforeBuoyancy ==
    (BuoyancyEvaluated /\ LoggedDepth > 0) =>
        LET log == buoyancyLog["character"]
        IN  /\ Len(log.dragVelocity) = 1
            /\ log.dragVelocity[1] = log.entryLinvel[1]

\* C5 amended: the velocity the drag is computed from is read after the
\* buoyancy impulse was applied and contains its effect: it is the entry
\* velocity plus buoyancy impulse / mass, its vertical part is larger than
\* before the call, and the drag impulse is -WATER_DRAG times it.
C5_DragFromVelocityAfterBuoyancy ==
    (BuoyancyEvaluated /\ LoggedDepth > 0) =>
        LET log == buoyancyLog["character"]
        IN  /\ Len(log.dragVelocity) = 1 /\ Len(log.impulses) = 2
            /\ log.dragVelocity[1] =
                  ApplyImpulse(log.entryLinvel[1],
                               Vec(Num(0), Num(BUOYANCY_FORCE * LoggedDepth),
                                   Num(0)))
            /\ log.dragVelocity[1].y[1] > log.entryLinvel[1].y[1]
            /\ log.impulses[2] =
                  Vec(NumScale(-WATER_DRAG, log.dragVelocity[1].x),
                      NumScale(-WATER_DRAG, log.dragVelocity[1].y),
                      NumScale(-WATER_DRAG, log.dragVelocity[1].z))

\* a drifting submerged character: drag acts on all three axes
C5_Witness ==
    /\ BuoyancyEvaluated /\ LoggedDepth > 0
    /\ Len(buoyancyLog["character"].dragVelocity) = 1
    /\ buoyancyLog["character"].entryLinvel[1].x # Num(0)
    /\ buoyancyLog["character"].dragVelocity[1] #
          buoyancyLog["character"].entryLinvel[1]

\* a frame has run to its end
FrameDone == pc = "idle" /\ IndexOf(calls, "renderScene") > 0

Before(a, b) ==
    /\ IndexOf(calls, a) > 0
    /\ IndexOf(calls, a) < IndexOf(calls, b)

\* C6 as stated: in every frame the ground probe, the yaw update and the
\* velocity write all come before that frame's world.step(), and buoyancy
\* and the mesh read-back after it.
C6_LocomotionBeforeStep ==
    FrameDone =>
        /\ Before("checkGrounded", "updateRotation")
        /\ Before("updateRotation", "applyMovement")
        /\ Before("applyMovement", "world.step")
        /\ Before("world.step", "applyBuoyancy")
        /\ Before("world.step", "updateMeshFromBody")

\* C6 amended: in every frame world.step() comes first and the ground
\* probe, the yaw update and the velocity write follow it, in this order,
\* with the mesh read-back last; so no command of a frame's snapshot exists
\* when that frame's step runs, and the command written in a frame is still
\* in the body, not integrated, when the frame ends: it waits for the next
\* frame's step.
C6_StepBeforeLocomotion ==
    /\ FrameDone =>
          /\ Before("getInputState", "world.step")
          /\ Before("world.step", "checkGrounded")
          /\ Before("checkGrounded", "updateRotation")
          /\ Before("updateRotation", "applyMovement")
          /\ Before("applyMovement", "updateMeshFromBody")
          /\ CharacterBody.linvel = velocity
    /\ pc = "updatePhysics" => IndexOf(calls, "applyMovement") = 0

\* a frame whose snapshot asks for movement is about to step the world with
\* the velocity of the previous, motionless, frame
C6_Witness ==
    /\ pc = "updatePhysics"
    /\ frameInput.forward /\ ~frameInput.backward
    /\ velocity = ZeroVelocity
    /\ CharacterBody.linvel = ZeroVelocity
    /\ isGrounded

\* C7: in every frame animate first steps the world, then applies buoyancy
\* and drag, then runs the character update (probe, yaw, velocity write);
\* buoyancy reads the position and velocity the step left, and locomotion
\* carries the vertical velocity buoyancy left.
C7_StepThenBuoyancyThenCharacter ==
    /\ FrameDone =>
          /\ Before("world.step", "applyBuoyancy")
          /\ Before("applyBuoyancy", "checkGrounded")
          /\ Before("checkGrounded", "updateRotation")
          /\ Before("updateRotation", "applyMovement")
    /\ pc = "updateCharacter" =>
          /\ BuoyancyEvaluated
          /\ buoyancyLog["character"].translation[1] =
                CharacterBody.translation
          /\ \E o \in CharacterStepOutcomes :
                /\ o.translation = buoyancyLog["character"].translation[1]
                /\ o.linvel = buoyancyLog["character"].entryLinvel[1]
    /\ AfterUpdateCharacter =>
          /\ BuoyancyEvaluated
          /\ ~(frameInput.jump /\ isGrounded) =>
                CharacterBody.linvel.y =
                   ApplyBuoyancy(buoyancyLog["character"].translation[1],
                                 buoyancyLog["character"].entryLinvel[1]).linvel.y

\* the character update has kept a vertical velocity that buoyancy changed
C7_Witness ==
    /\ AfterUpdateCharacter
    /\ ~frameInput.jump
    /\ BuoyancyEvaluated /\ LoggedDepth > 0
    /\ CharacterBody.linvel.y # buoyancyLog["character"].entryLinvel[1].y
    /\ Before("applyBuoyancy", "applyMovement")

\* C8: every dynamic body of the water scene that is below the water level
\* after a step (the platform and the spheres as well as the character) gets
\* the buoyancy and drag evaluation in that step.
C8_BuoyancyForEveryFloatingBody ==
    (pc = "updateCharacter" /\ IndexOf(calls, "applyBuoyancy") > 0) =>
        \A b \in Bodies :
            rigidBody[b].translation.y < WATER_LEVEL =>
                /\ Len(buoyancyLog[b].translation) = 1
                /\ Len(buoyancyLog[b].impulses) = 2

\* C9: when renderScene is called, the mesh of every dynamic body (the
\* character, the platform and the spheres) is at the body's position.
C9_MeshesFollowBodies ==
    pc = "renderScene" =>
        \A b \in Bodies : mesh[b] = rigidBody[b].translation

\* C10: after every applyMovement call the horizontal velocity of the body
\* is direction * MOVE_SPEED whatever it was before, grounded or not, and the
\* vertical velocity is the one read from the body unless jump && isGrounded.
C10_VelocityReplaced ==
    [][pc = "applyMovement" /\ pc' = "locomotionDone" =>
         LET after == rigidBody'["character"].linvel
         IN  /\ NumScale(2, after.x) = NumScale(MOVE_SPEED, direction.x)
             /\ NumScale(2, after.z) = NumScale(MOVE_SPEED, direction.z)
             /\ ~(frameInput.jump /\ isGrounded) =>
                   after.y = CharacterBody.linvel.y
             /\ velocity' = after]_vars

\* an airborne character with no movement intent has had its horizontal
\* velocity replaced by zero and kept its vertical velocity
C10_Witness ==
    /\ pc = "locomotionDone"
    /\ ~isGrounded
    /\ direction = [x |-> Num(0), z |-> Num(0)]
    /\ CharacterBody.linvel = Vec(Num(0), Num(-200), Num(0))

\* C11: world.step() is never called before initPhysics() has resolved and
\* physicsWorld is set, and when the initialization fails (initPhysics
\* rejects, or a later call of init throws) the animation loop is never
\* started: no frame, no step and no character update ever runs, whatever
\* events arrive afterwards.
C11_NoStepBeforeWorldReady ==
    /\ [](IndexOf(calls, "world.step") > 0 => PhysicsWorldSet)
    /\ [](initDone < Len(InitStages) =>
             /\ pc \in {"init", "initFailed"}
             /\ calls = <<>>
             /\ frameInput = NoInput
             /\ rigidBody = [b \in Bodies |->
                               Body(InitialPosition[b], ZeroVelocity)]
             /\ velocity = ZeroVelocity
             /\ ~isGrounded)
    /\ [][pc = "initFailed" => pc' = "initFailed"]_vars

\* initPhysics() has rejected: physicsWorld is still null and nothing runs
C11_Witness ==
    /\ pc = "initFailed"
    /\ ~PhysicsWorldSet
    /\ calls = <<>>

\* the character rests with the bottom of its capsule collider on the top
\* face of a static collider
RestsOnStatic(rb) ==
    LET position == rb["character"].translation
        bottom == BodyCollider("character", position).cy
                     - BodyCollider("character", position).hy
    IN  \E c \in StaticColliders :
            /\ InColumn(c, position.x, position.z)
            /\ c.cy + c.hy = bottom

\* the ray of checkGrounded against the static colliders
StaticColliderHit(rb) ==
    LET position == rb["character"].translation
        rayOrigin == Vec(position.x,
                         position.y - CHARACTER_HEIGHT \div 2 + CHARACTER_RADIUS,
                         position.z)
    IN  CastRayDown(StaticColliders, rayOrigin, GROUND_CHECK_DISTANCE) # {}

\* C12: when the ray cast of checkGrounded throws in a frame, the character
\* is ungrounded for that frame and the frame runs to its end: the velocity
\* write, the mesh sync, the camera update, the mouse reset and the render
\* all still happen.
C12_ProbeFailureRecovered ==
    IndexOf(calls, CastRayThrows) > 0 =>
        /\ ~isGrounded
        /\ pc # "idle" \/ FrameDone
        /\ FrameDone =>
              /\ Before(CastRayThrows, "applyMovement")
              /\ Before("applyMovement", "updateMeshFromBody")
              /\ Before("updateMeshFromBody", "updateCamera")
              /\ Before("updateCamera", "resetMouseMovement")
              /\ Before("resetMouseMovement", "renderScene")

\* C13: when the character's capsule rests on a flat static surface, the ray
\* of checkGrounded reaches that surface, and checkGrounded reports true.
C13_ProbeReachesSurface ==
    (AfterUpdateCharacter /\ RestsOnStatic(rigidBody)) =>
        /\ StaticColliderHit(rigidBody)
        /\ isGrounded

\* the square of the number a + b*sqrt(2), as such a pair
NumSquare(p) == <<p[1] * p[1] + 2 * p[2] * p[2], 2 * p[1] * p[2]>>

HorizontalSpeedSquared(v) == NumAdd(NumSquare(v.x), NumSquare(v.z))

\* the movement intents of a snapshot
Intents(input) ==
    <<input.forward, input.backward, input.left, input.right>>

\* C14: with exactly one of forward/backward and exactly one of left/right
\* active, at every yaw, the velocity applyMovement writes has the horizontal
\* speed MOVE_SPEED (speed squared = MOVE_SPEED squared), the same as with a
\* single intent active, not MOVE_SPEED * sqrt(2).
C14_DiagonalNormalized ==
    pc = "locomotionDone" =>
        LET i == frameInput
            diagonal == (i.forward # i.backward) /\ (i.left # i.right)
            single == Cardinality({ k \in 1..4 : Intents(i)[k] }) = 1
        IN  (diagonal \/ single) =>
               /\ HorizontalSpeedSquared(velocity) = Num(MOVE_SPEED * MOVE_SPEED)
               /\ HorizontalSpeedSquared(CharacterBody.linvel) =
                     Num(MOVE_SPEED * MOVE_SPEED)

\* forward and right held at a quarter turn of yaw: both horizontal
\* components of the written velocity are +-MOVE_SPEED * sqrt(2)/2
C14_Witness ==
    /\ pc = "locomotionDone"
    /\ Intents(frameInput) = <<TRUE, FALSE, FALSE, TRUE>>
    /\ rotationY = QuarterTurn
    /\ velocity.x[2] # 0 /\ velocity.z[2] # 0
    /\ velocity.x[1] = 0 /\ velocity.z[1] = 0

\* C15: after every updateCharacter call the yaw of the character's mesh
\* equals character.rotation.y, the yaw the movement direction was rotated
\* by in that call.
C15_MeshYawFollowsRotation ==
    AfterUpdateCharacter => meshYaw = rotationY

\* this step is an updateCharacter call that ran updateRotation
RotationUpdated ==
    /\ pc = "updateCharacter"
    /\ IndexOf(calls', "updateRotation") > 0

DampedPart(before, after) ==
    /\ before * after >= 0
    /\ Abs(after) <= Abs(before)
    /\ before # 0 => Abs(after) < Abs(before)

\* C17: on a submerged body that nothing else acts on, every application of
\* the drag impulse -velocity * WATER_DRAG makes each horizontal velocity
\* component that is not zero strictly smaller in magnitude, never flips its
\* sign and never makes it larger; a magnitude that decreases at every
\* application goes to zero.
C17_DragDamping ==
    [][pc = "applyBuoyancy" /\ CharacterBody.translation.y < WATER_LEVEL =>
         LET before == CharacterBody.linvel
             after == rigidBody'["character"].linvel
         IN  /\ \A k \in 1..2 : DampedPart(before.x[k], after.x[k])
             /\ \A k \in 1..2 : DampedPart(before.z[k], after.z[k])]_vars

\* two applications of the drag have taken a horizontal velocity of
\* 3 m/s down to rest
C17_Witness ==
    /\ pc = "applyBuoyancy"
    /\ BuoyancyEvaluated
    /\ buoyancyLog["character"].entryLinvel[1].x = Num(13)
    /\ CharacterBody.linvel.x = Num(0)

\* C18: the snapshot getInputState returned for a frame keeps its fields for
\* as long as the frame uses it: resetMouseMovement, which zeroes the
\* module's mouseX, and updateCharacter and updateCamera leave it as it was.
C18_SnapshotImmutable ==
    [][(frameInput # NoInput /\ frameInput' # NoInput) =>
          frameInput' = frameInput]_vars

\* after resetMouseMovement the snapshot still holds the mouse movement of
\* the frame while the module's state has been zeroed
C18_Witness ==
    /\ pc = "renderScene"
    /\ frameInput.mouseX = QuarterTurn
    /\ inputState.mouseX = 0
    /\ IndexOf(calls, "resetMouseMovement") > 0

\* the horizontal velocity the claim gives for the key held alone
SingleKeyVelocity ==
    [KeyW |-> <<Num(0), Num(-MOVE_SPEED)>>,
     KeyS |-> <<Num(0), Num(MOVE_SPEED)>>,
     KeyA |-> <<Num(-MOVE_SPEED), Num(0)>>,
     KeyD |-> <<Num(MOVE_SPEED), Num(0)>>]

\* C19: at yaw 0, with W the only key held the velocity applyMovement writes
\* has the horizontal part (0, -MOVE_SPEED); S alone gives (0, +MOVE_SPEED),
\* A alone (-MOVE_SPEED, 0) and D alone (+MOVE_SPEED, 0).
C19_SingleKeyVelocity ==
    (pc = "locomotionDone" /\ rotationY = 0) =>
        \A code \in DOMAIN SingleKeyVelocity :
            Intents(frameInput) =
                  Intents(UpdateKeyState(InitialInputState, code, TRUE)) =>
               /\ <<velocity.x, velocity.z>> = SingleKeyVelocity[code]
               /\ <<CharacterBody.linvel.x, CharacterBody.linvel.z>> =
                     SingleKeyVelocity[code]

\* W alone at yaw 0: the written velocity points along -z
C19_Witness ==
    /\ pc = "locomotionDone"
    /\ rotationY = 0
    /\ Intents(frameInput) = <<TRUE, FALSE, FALSE, FALSE>>
    /\ velocity.z = Num(-MOVE_SPEED)
    /\ velocity.x = Num(0)

\* C20: with no movement intent the horizontal velocity applyMovement writes
\* is (0, 0) at every yaw: the zero direction rotated by any yaw is the zero
\* direction, whatever the body's velocity was.
C20_NoIntentNoVelocity ==
    (pc = "locomotionDone"
        /\ Intents(frameInput) = <<FALSE, FALSE, FALSE, FALSE>>) =>
        /\ direction = [x |-> Num(0), z |-> Num(0)]
        /\ velocity.x = Num(0) /\ velocity.z = Num(0)
        /\ CharacterBody.linvel.x = Num(0) /\ CharacterBody.linvel.z = Num(0)

\* no key held at a quarter turn of yaw, on a grounded body that was
\* drifting: the horizontal velocity is gone, the vertical one is kept
C20_Witness ==
    /\ pc = "locomotionDone"
    /\ Intents(frameInput) = <<FALSE, FALSE, FALSE, FALSE>>
    /\ rotationY = -QuarterTurn
    /\ isGrounded /\ ~frameInput.jump
    /\ velocity = Vec(Num(0), Num(-200), Num(0))

\* C21: updateCamera writes the camera controller only: the step that runs
\* it leaves the character's yaw, isGrounded, the velocity and the position
\* of every rigid body, and the rest of the character (the velocity and
\* direction fields, the mesh and its yaw) and the input state as they were.
C21_CameraWritesCameraOnly ==
    [][pc = "updateCamera" =>
         /\ rotationY' = rotationY
         /\ isGrounded' = isGrounded
         /\ rigidBody' = rigidBody
         /\ velocity' = velocity
         /\ direction' = direction
         /\ mesh' = mesh
         /\ meshYaw' = meshYaw
         /\ inputState' = inputState]_vars

\* updateCamera has placed the ideal position a camera distance behind a
\* character that has turned a quarter and drifted twenty metres
C21_Witness ==
    /\ pc = "resetMouseMovement"
    /\ rotationY = QuarterTurn
    /\ mesh["character"] = Vec(2000, -100, 0)
    /\ CharacterBody.translation = Vec(2000, -100, 0)
    /\ cameraController.idealPosition = Vec(2500, 50, 0)
    /\ cameraController.idealLookAt = Vec(1800, 50, 0)

\* procedurally generated objects of the scene that have a fixed body and a
\* collider
ProceduralStatic(name) ==
    { o \in sceneObjects :
        o.name = name /\ o.procedural /\ o.body = "fixed" /\ o.collider }

\* C22 as stated: once the error callback of the island load has run, the
\* scene has a procedurally generated island and procedurally generated
\* trees, each with a static body and a collider.
C22_FallbackIslandAndTrees ==
    loading.island = "failed" =>
        /\ ProceduralStatic("simpleIsland") # {}
        /\ ProceduralStatic("simpleTree") # {}

\* the number of world.step() calls of the frame so far
StepCalls == Cardinality({ i \in 1..Len(calls) : calls[i] = "world.step" })

\* C23: every call of animate steps the world exactly once, whatever the
\* input snapshot and however the frame ends: no step before updatePhysics,
\* one from then on; and the bodies move in the updatePhysics step only.
C23_OneStepPerFrame ==
    /\ [](/\ pc = "updatePhysics" => StepCalls = 0
          /\ (calls # <<>> /\ pc # "updatePhysics") => StepCalls = 1)
    /\ [][(\E b \in Bodies :
              rigidBody'[b].translation # rigidBody[b].translation)
             => pc = "updatePhysics" /\ StepCalls' = 1]_vars

\* a frame with the forward and jump keys held has run to its end with one
\* step
C23_Witness ==
    /\ pc = "idle"
    /\ StepCalls = 1
    /\ FrameDone
    /\ inputState.forward /\ inputState.jump
    /\ velocity.y = Num(JUMP_FORCE)

\* C24: isGrounded changes only in a step that runs the ground probe; every
\* updateCharacter call that reaches applyMovement has run the probe before
\* it, has stored the probe's result for the bodies as the step left them,
\* and gates the jump on that result.
C24_GroundedFromProbeOfSameCall ==
    [][/\ isGrounded' # isGrounded =>
             pc = "updateCharacter" /\ IndexOf(calls', "checkGrounded") > 0
       /\ (pc = "updateCharacter" /\ IndexOf(calls', "applyMovement") > 0) =>
             /\ IndexOf(calls', "checkGrounded") > 0
             /\ IndexOf(calls', "checkGrounded")
                   < IndexOf(calls', "applyMovement")
             /\ isGrounded' = CheckGrounded(rigidBody)
             /\ velocity'.y = IF frameInput.jump /\ isGrounded'
                              THEN Num(JUMP_FORCE)
                              ELSE CharacterBody.linvel.y]_vars

\* the first probe has changed isGrounded, and a later call has gated a
\* jump on its own probe
C24_Witness ==
    /\ AfterUpdateCharacter
    /\ isGrounded
    /\ frameInput.jump
    /\ velocity.y = Num(JUMP_FORCE)
    /\ CharacterBody.translation = Vec(2000, 50, -500)

\* this step ends a frame, by the return of animate or by an exception
FrameEnds == pc # "idle" /\ pc' = "idle"

C26_NoMouseMovementLost ==
    [][(/\ BetweenFrames /\ pc' = pc
        /\ inputState.pointerLocked /\ inputState'.pointerLocked
        /\ inputState'.mouseX # inputState.mouseX) =>
          \E movementX \in MouseValues :
              inputState'.mouseX = inputState.mouseX + movementX]_vars

\* C27: animate asks for the next frame before anything else, every frame
\* that has started ends, and after every frame, whether it has returned or
\* was cut short by an exception, another frame starts.
C27_FrameLoopNeverStops ==
    /\ [](calls # <<>> => calls[1] = "requestAnimationFrame")
    /\ (pc \in {"updatePhysics", "updateCharacter", "updateCamera",
                "resetMouseMovement", "renderScene"}) ~> (pc = "idle")
    /\ (pc = "idle") ~> (pc = "updatePhysics")
    /\ (pc = "idle" /\ IndexOf(calls, CastRayThrows) > 0)
          ~> (pc = "updatePhysics" /\ calls = AnimateHead)

\* a frame has started with the character's mesh behind the body: the frame
\* before it was cut short between the step and the mesh update
C27_Witness ==
    /\ pc = "updatePhysics"
    /\ calls = AnimateHead
    /\ mesh["character"] # CharacterBody.translation

\* C28 as stated: the update made by createWaterPhysics receives the
\* caller's deltaTime and the caller's time with the GUI as without it, and
\* between them physics.waterLevel with the GUI and config.waterLevel
\* without.
C28_SameArgumentsWithGui ==
    (waterSim.program = "simulation" /\ waterSim.received # <<>>) =>
        /\ waterSim.received[1] = waterSim.caller[1]
        /\ waterSim.received[2] = IF waterSim.addGui
                                  THEN waterSim.physicsWaterLevel
                                  ELSE waterSim.waterLevel
        /\ waterSim.received[3] = waterSim.caller[2]

\* C29 as stated: in every frame of the demo the water level handed to the
\* water physics is the height of the water surface as the GUI has left it.
C29_BuoyancyLevelIsSurface ==
    [][(waterSim.program = "demo" /\ waterSim'.time # waterSim.time) =>
          waterSim'.received[2] = waterSim.positionY]_vars

====
